---- MODULE Spec2Model ----
(***************************************************************************)
(* Dancing-links exact-cover Sudoku solver of src/sandbox.py (classes Node *)
(* and DLXSudoku), as a state machine; after it the rate limiting of       *)
(* AICCLient.get_data of src/src/gas/automatic_identification_system.py.   *)
(* In the solver  A node of the matrix is a natural  *)
(* number: 0 is the master header, 1..NC are the column headers in the     *)
(* order of self.constraints, and the node of option index o (0-based, as  *)
(* enumerate gives it) for the p-th label of the option is NC + 4*o + p.   *)
(* Rows and columns of the board are 0-based as in the source.             *)
(***************************************************************************)
EXTENDS Integers, Sequences, FiniteSets, TLC

VARIABLES
    input,        \* the grid handed to DLXSudoku(board), never written
    board,        \* self.board
    options,      \* self.options
    constraints,  \* self.constraints
    c,            \* Node.c of every node
    s,            \* Node.s of every node
    name,         \* Node.name of every node
    column_list,  \* self.column_list
    llink, rlink, ulink, dlink,   \* Node.llink/rlink/ulink/dlink
    solution,     \* self.solution
    stack,        \* activation records of search(): [col, r, next_r] and
                  \* what they have seen: [tried, entry]
    pc,           \* where the running solve() is
    retval,       \* value returned by the search() that returned last
    result,       \* what solve() returned: "pending", "None" or "board"
    hist,         \* covers not yet undone (nested cover/uncover only)
    lastop,       \* last primitive applied (nested cover/uncover only)
    now,               \* time.time(), in seconds (AICCLient only)
    last_request_time, \* AICCLient.last_request_time
    ais_pc,            \* where the running get_data() is
    wake,              \* earliest time at which time.sleep returns
    sent,              \* the times at which HTTP requests were issued
    gie_pc,       \* where the running fetch_*_data() is (GIE only)
    page,         \* argument page of the fetch
    all_pages,    \* argument all_pages of the fetch
    current_page, \* current_page, which is also params["page"]
    last_page,    \* last_page of the fetch
    all_data,     \* all_data of the fetch
    data,         \* the dict data: its keys "data" and "last_page"
    ncalls,       \* calls of _get_with_rate_limiting made so far
    http_log      \* the HTTP requests sent and the answers to them

vars == <<input, board, options, constraints, c, s, name, column_list, llink,
          rlink, ulink, dlink, solution, stack, pc, retval, result, hist, lastop,
          now, last_request_time, ais_pc, wake, sent, gie_pc, page, all_pages,
          current_page, last_page, all_data, data, ncalls, http_log>>

----------------------------------------------------------------------------
(* Boards *)

size == 9
numbers == 1..9
Idx == 0..(size - 1)
None == "None"

Grid(rows) == [i \in Idx |-> [j \in Idx |-> rows[i + 1][j + 1]]]

ExampleBoard ==
    Grid(<< <<1, 0, 4, 3, 8, 2, 9, 5, 6>>,
            <<2, 0, 5, 4, 6, 7, 1, 3, 8>>,
            <<3, 8, 6, 9, 5, 1, 4, 0, 2>>,
            <<4, 6, 1, 5, 2, 3, 8, 9, 7>>,
            <<7, 3, 8, 1, 4, 9, 6, 2, 5>>,
            <<9, 5, 2, 8, 7, 6, 3, 1, 4>>,
            <<5, 2, 9, 6, 3, 4, 7, 8, 1>>,
            <<6, 0, 7, 2, 9, 8, 5, 4, 3>>,
            <<8, 4, 3, 0, 1, 5, 2, 6, 9>> >>)

SetCell(b, i, j, v) == [b EXCEPT ![i][j] = v]

\* the example board with its blank cells filled in
Solved ==
    SetCell(SetCell(SetCell(SetCell(SetCell(ExampleBoard,
        0, 1, 7), 1, 1, 9), 2, 7, 7), 7, 1, 1), 8, 3, 7)

\* cells that the input boards may leave blank
BlankCands ==
    {<<0, 1>>, <<1, 1>>, <<2, 7>>, <<7, 1>>, <<8, 3>>,
     <<0, 0>>, <<0, 2>>, <<3, 0>>, <<3, 2>>}

\* at most this many of them are blank in one board
MaxBlanks == 5

\* a given that the input boards may carry: <<0, 0, 1>> is the digit of
\* Solved, the others clash with a digit of Solved
Givens == {<<0, 0, 1>>, <<3, 2, 4>>, <<0, 0, 4>>, <<8, 1, 7>>}

Blank(b, Z) ==
    [i \in Idx |-> [j \in Idx |-> IF <<i, j>> \in Z THEN 0 ELSE b[i][j]]]

\* a board that the search solves only after backtracking
HardBlanks ==
    {<<0, 3>>, <<0, 4>>, <<0, 7>>, <<1, 5>>, <<1, 8>>, <<2, 0>>, <<2, 3>>,
     <<2, 4>>, <<2, 6>>, <<2, 7>>, <<2, 8>>, <<3, 0>>, <<3, 2>>, <<3, 4>>,
     <<3, 5>>, <<3, 7>>, <<3, 8>>, <<4, 1>>, <<4, 3>>, <<4, 4>>, <<4, 5>>,
     <<5, 3>>, <<5, 6>>, <<5, 7>>, <<6, 0>>, <<6, 1>>, <<6, 2>>, <<6, 5>>,
     <<6, 6>>, <<6, 7>>, <<7, 0>>, <<7, 1>>, <<7, 4>>, <<7, 5>>, <<7, 6>>,
     <<7, 7>>, <<7, 8>>, <<8, 4>>, <<8, 5>>, <<8, 6>>, <<8, 7>>, <<8, 8>>}

HardBoard == Blank(Solved, HardBlanks)

\* a board with one completion that the search finds only after backtracking
UniqueHardBlanks ==
    {<<0, 0>>, <<0, 2>>, <<0, 3>>, <<0, 5>>, <<1, 3>>, <<1, 5>>, <<1, 7>>,
     <<1, 8>>, <<2, 0>>, <<2, 1>>, <<2, 2>>, <<2, 3>>, <<2, 4>>, <<2, 6>>,
     <<2, 7>>, <<2, 8>>, <<3, 0>>, <<3, 5>>, <<3, 6>>, <<4, 1>>, <<4, 3>>,
     <<4, 6>>, <<4, 7>>, <<5, 0>>, <<5, 3>>, <<5, 5>>, <<6, 1>>, <<6, 3>>,
     <<6, 5>>, <<6, 6>>, <<6, 7>>, <<7, 1>>, <<7, 2>>, <<7, 4>>, <<7, 6>>,
     <<7, 7>>, <<7, 8>>, <<8, 0>>, <<8, 1>>, <<8, 2>>, <<8, 3>>, <<8, 5>>}

UniqueHardBoard == Blank(Solved, UniqueHardBlanks)

\* the board on which covers are nested: a rectangle of Solved that can be
\* filled in two ways, and two cells next to it
LifoBoard ==
    Blank(Solved, {<<0, 0>>, <<0, 2>>, <<3, 0>>, <<3, 2>>, <<0, 1>>, <<1, 1>>})

\* at most this many covers are pending at once
MaxNest == 2

\* the input boards of the model
Boards ==
    {Blank(SetCell(Solved, g[1], g[2], g[3]), Z) :
        g \in Givens,
        Z \in {Y \in SUBSET BlankCands : Cardinality(Y) <= MaxBlanks}}
    \cup {HardBoard, UniqueHardBoard}

----------------------------------------------------------------------------
(* Option generation *)

\* is_valid_move without the 3x3 sub-grid check
is_valid_move_no_box(b, i, j, k) ==
    /\ \A cc \in Idx : b[i][cc] # k
    /\ \A r \in Idx : b[r][j] # k

\* k in self.board[i]; the column loop; the 3x3 sub-grid loop
is_valid_move(b, i, j, k) ==
    /\ \A cc \in Idx : b[i][cc] # k
    /\ \A r \in Idx : b[r][j] # k
    /\ LET box_row == 3 * (i \div 3)
           box_col == 3 * (j \div 3)
       IN  \A r \in box_row..(box_row + 2) :
               \A cc \in box_col..(box_col + 2) : b[r][cc] # k

\* "for k in self.numbers": the candidates of one cell, k ascending (the
\* order in which CPython iterates set(range(1, 10)))
RECURSIVE MovesOfCell(_, _, _, _)
MovesOfCell(b, i, j, k) ==
    IF k \notin numbers THEN <<>>
    ELSE (IF is_valid_move(b, i, j, k) THEN << <<i, j, k>> >> ELSE <<>>)
         \o MovesOfCell(b, i, j, k + 1)

\* MovesOfRow without the test for a blank cell
RECURSIVE MovesOfRow_any_cell(_, _, _)
MovesOfRow_any_cell(b, i, j) ==
    IF j >= size THEN <<>>
    ELSE MovesOfCell(b, i, j, 1) \o MovesOfRow_any_cell(b, i, j + 1)

\* "for j in range(self.size)"
RECURSIVE MovesOfRow(_, _, _)
MovesOfRow(b, i, j) ==
    IF j >= size THEN <<>>
    ELSE (IF b[i][j] = 0 THEN MovesOfCell(b, i, j, 1) ELSE <<>>)
         \o MovesOfRow(b, i, j + 1)

\* "for i in range(self.size)"
RECURSIVE MovesFrom(_, _)
MovesFrom(b, i) ==
    IF i >= size THEN <<>>
    ELSE MovesOfRow(b, i, 0) \o MovesFrom(b, i + 1)

valid_moves(b) == MovesFrom(b, 0)

\* (f"p{i}{j}", f"r{i}{k}", f"c{j}{k}", f"b{box}{k}"): a label is its letter
\* followed by its two digit characters
OptionOf(m) ==
    LET i == m[1]
        j == m[2]
        k == m[3]
        box == 3 * (i \div 3) + (j \div 3)
    IN  << <<"p", i, j>>, <<"r", i, k>>, <<"c", j, k>>, <<"b", box, k>> >>

get_all_options(b) ==
    LET moves == valid_moves(b)
    IN  [n \in 1..Len(moves) |-> OptionOf(moves[n])]

\* code point of the letters used in labels
Ord(ch) ==
    CASE ch = "b" -> 98
      [] ch = "c" -> 99
      [] ch = "p" -> 112
      [] ch = "r" -> 114

\* Python's string order on three-character labels (digit characters are
\* ordered as the digits are)
LabelLess(x, y) ==
    \/ Ord(x[1]) < Ord(y[1])
    \/ /\ x[1] = y[1]
       /\ \/ x[2] < y[2]
          \/ x[2] = y[2] /\ x[3] < y[3]

\* sorted(list(cons)): the labels in ascending order, found by splitting
\* around the median label
RECURSIVE sorted(_)
sorted(S) ==
    IF S = {} THEN <<>>
    ELSE LET x == CHOOSE e \in S :
                      Cardinality({y \in S : LabelLess(y, e)}) = Cardinality(S) \div 2
             less == {y \in S : LabelLess(y, x)}
         IN  sorted(less) \o <<x>> \o sorted(S \ (less \cup {x}))

get_constraint_universe(opts) ==
    sorted({opts[n][p] : n \in 1..Len(opts), p \in 1..4})

----------------------------------------------------------------------------
(* The matrix: a record of the fields of all nodes *)

Mat == [c |-> c, s |-> s, name |-> name, column_list |-> column_list,
        llink |-> llink, rlink |-> rlink, ulink |-> ulink, dlink |-> dlink]

header == 0

\* Node(): every link of a fresh node points at the node itself; the
\* lists self.column_list and self.row_nodes start empty
FreshNodes(nn) ==
    LET self == [n \in 0..nn |-> n]
        none == [n \in 0..nn |-> None]
    IN  [c |-> none, s |-> none, name |-> none,
         llink |-> self, rlink |-> self, ulink |-> self, dlink |-> self,
         column_list |-> <<>>, row_nodes |-> <<>>]

\* AddHeader that inserts the new header to the right of the master header
AddHeader_at_front(M, cons) ==
    LET col == Len(M.column_list) + 1
        first == M.rlink[header]
        M1 == [M EXCEPT !.s[col] = 0,
                        !.name[col] = cons[col],
                        !.llink[col] = header,
                        !.rlink[col] = first]
        M2 == [M1 EXCEPT !.llink[first] = col]
    IN  [M2 EXCEPT !.rlink[header] = col,
                   !.column_list = Append(M2.column_list, col)]

\* one pass of the loop of create_column_headers, for the label after
\* those that already have a header
AddHeader(M, cons) ==
    LET col == Len(M.column_list) + 1
        last == M.llink[header]
        M1 == [M EXCEPT !.s[col] = 0,
                        !.name[col] = cons[col],
                        !.llink[col] = last,
                        !.rlink[col] = header]
        M2 == [M1 EXCEPT !.rlink[last] = col]
    IN  [M2 EXCEPT !.llink[header] = col,
                   !.column_list = Append(M2.column_list, col)]

\* the next n passes of "for cons in self.constraints", fewer if the loop
\* ends
RECURSIVE HeaderLoop(_, _, _)
HeaderLoop(M, cons, n) ==
    IF n = 0 \/ Len(M.column_list) >= Len(cons) THEN M
    ELSE IF n = 1 THEN AddHeader(M, cons)
    ELSE HeaderLoop(HeaderLoop(M, cons, n \div 2), cons, n - n \div 2)

create_column_headers(M, cons) == HeaderLoop(M, cons, Len(cons))

\* self.column_index[cons]: the header that carries the label
column_index(M, label) ==
    CHOOSE n \in 1..Len(M.column_list) : M.name[M.column_list[n]] = label

\* AddNode that inserts the new node at the top of its column
AddNode_at_top(M, opts, o, p) ==
    LET col == column_index(M, opts[o + 1][p])
        new_node == Len(M.column_list) + 4 * o + p
        first_node == Len(M.column_list) + 4 * o + 1
        M1 == [M EXCEPT !.c[new_node] = col,
                        !.s[new_node] = o,
                        !.ulink[new_node] = col,
                        !.dlink[new_node] = M.dlink[col]]
        M2 == [M1 EXCEPT !.ulink[M1.dlink[col]] = new_node]
        M3 == [M2 EXCEPT !.dlink[col] = new_node,
                         !.s[col] = M2.s[col] + 1]
    IN  IF p = 1
        THEN [M3 EXCEPT !.rlink[new_node] = new_node,
                        !.llink[new_node] = new_node]
        ELSE LET last == M3.llink[first_node]
                 M4 == [M3 EXCEPT !.rlink[last] = new_node]
                 M5 == [M4 EXCEPT !.llink[new_node] = last,
                                  !.rlink[new_node] = first_node]
             IN  [M5 EXCEPT !.llink[first_node] = new_node]

\* the body of the inner loop of create_rows: the node for label p of the
\* option with index o (0-based)
AddNode(M, opts, o, p) ==
    LET col == column_index(M, opts[o + 1][p])
        new_node == Len(M.column_list) + 4 * o + p
        first_node == Len(M.column_list) + 4 * o + 1
        M1 == [M EXCEPT !.c[new_node] = col,
                        !.s[new_node] = o,
                        !.dlink[new_node] = col,
                        !.ulink[new_node] = M.ulink[col]]
        M2 == [M1 EXCEPT !.dlink[M1.ulink[col]] = new_node]
        M3 == [M2 EXCEPT !.ulink[col] = new_node,
                         !.s[col] = M2.s[col] + 1]
    IN  IF p = 1
        THEN [M3 EXCEPT !.rlink[new_node] = new_node,
                        !.llink[new_node] = new_node]
        ELSE LET last == M3.llink[first_node]
                 M4 == [M3 EXCEPT !.rlink[last] = new_node]
                 M5 == [M4 EXCEPT !.llink[new_node] = last,
                                  !.rlink[new_node] = first_node]
             IN  [M5 EXCEPT !.llink[first_node] = new_node]

\* one pass of the outer loop of create_rows, for the option after those
\* that already have their row
AddRow(M, opts) ==
    LET o == Len(M.row_nodes)
        M4 == AddNode(AddNode(AddNode(AddNode(M, opts, o, 1),
                                      opts, o, 2), opts, o, 3), opts, o, 4)
        first_node == Len(M.column_list) + 4 * o + 1
    IN  [M4 EXCEPT !.row_nodes =
             Append(M4.row_nodes, [p \in 1..4 |-> first_node + p - 1])]

\* the next n passes of "for option_index, option in enumerate(self.options)",
\* fewer if the loop ends
RECURSIVE RowLoop(_, _, _)
RowLoop(M, opts, n) ==
    IF n = 0 \/ Len(M.row_nodes) >= Len(opts) THEN M
    ELSE IF n = 1 THEN AddRow(M, opts)
    ELSE RowLoop(RowLoop(M, opts, n \div 2), opts, n - n \div 2)

create_rows(M, opts) == RowLoop(M, opts, Len(opts))

\* DLXSudoku.__init__ after the options and constraints are known
BuildMatrix(opts, cons) ==
    create_rows(
        create_column_headers(FreshNodes(Len(cons) + 4 * Len(opts)), cons),
        opts)

----------------------------------------------------------------------------
(* Node.cover_h / uncover_h / cover_v / uncover_v *)

\* cover_h that redirects the link of the right neighbour only
cover_h_right_only(M, n) == [M EXCEPT !.llink[M.rlink[n]] = M.llink[n]]

cover_h(M, n) ==
    LET M1 == [M EXCEPT !.llink[M.rlink[n]] = M.llink[n]]
    IN  [M1 EXCEPT !.rlink[M1.llink[n]] = M1.rlink[n]]

\* uncover_h that restores nothing
uncover_h_skip(M, n) == M

uncover_h(M, n) ==
    LET M1 == [M EXCEPT !.llink[M.rlink[n]] = n]
    IN  [M1 EXCEPT !.rlink[M1.llink[n]] = n]

cover_v(M, n) ==
    LET M1 == [M EXCEPT !.dlink[M.ulink[n]] = M.dlink[n]]
    IN  [M1 EXCEPT !.ulink[M1.dlink[n]] = M1.ulink[n]]

\* uncover_v that restores the link of the node below only
uncover_v_below_only(M, n) == [M EXCEPT !.ulink[M.dlink[n]] = n]

uncover_v(M, n) ==
    LET M1 == [M EXCEPT !.ulink[M.dlink[n]] = n]
    IN  [M1 EXCEPT !.dlink[M1.ulink[n]] = n]

----------------------------------------------------------------------------
(* DLXSudoku.cover / uncover / choose_column *)

\* cover_node without the count update
cover_node_no_count(M, j) == cover_v(M, j)

\* j.cover_v(); j.c.s -= 1
cover_node(M, j) ==
    LET M1 == cover_v(M, j)
    IN  [M1 EXCEPT !.s[M1.c[j]] = M1.s[M1.c[j]] - 1]

\* cover_row that takes out the first of the other nodes only
cover_row_first_only(M, r, j) ==
    IF j = r THEN M ELSE cover_node(M, j)

\* the inner loop of cover: while j != r
RECURSIVE cover_row(_, _, _)
cover_row(M, r, j) ==
    IF j = r THEN M
    ELSE LET M1 == cover_node(M, j)
         IN  cover_row(M1, r, M1.rlink[j])

\* cover_rows that stops after the first row of the column
cover_rows_first_only(M, col, r) ==
    IF r = col THEN M ELSE cover_row(M, r, M.rlink[r])

\* the outer loop of cover: while r != col
RECURSIVE cover_rows(_, _, _)
cover_rows(M, col, r) ==
    IF r = col THEN M
    ELSE LET M1 == cover_row(M, r, M.rlink[r])
         IN  cover_rows(M1, col, M1.dlink[r])

cover(M, col) ==
    LET M1 == cover_h(M, col)
    IN  cover_rows(M1, col, M1.dlink[col])

\* uncover_node without the count update
uncover_node_no_count(M, j) == uncover_v(M, j)

\* j.c.s += 1; j.uncover_v()
uncover_node(M, j) ==
    LET M1 == [M EXCEPT !.s[M.c[j]] = M.s[M.c[j]] + 1]
    IN  uncover_v(M1, j)

\* the inner loop of uncover: while j != r
RECURSIVE uncover_row(_, _, _)
uncover_row(M, r, j) ==
    IF j = r THEN M
    ELSE LET M1 == uncover_node(M, j)
         IN  uncover_row(M1, r, M1.llink[j])

\* the outer loop of uncover: while r != col
RECURSIVE uncover_rows(_, _, _)
uncover_rows(M, col, r) ==
    IF r = col THEN M
    ELSE LET M1 == uncover_row(M, r, M.llink[r])
         IN  uncover_rows(M1, col, M1.ulink[r])

uncover(M, col) ==
    uncover_h(uncover_rows(M, col, M.ulink[col]), col)

\* float('inf'): above every count a column can hold
Inf(M) == Cardinality(DOMAIN M.s)

\* choose_step in which a later column with an equal count replaces the
\* chosen one
choose_step_last_min(M, st) ==
    IF M.s[st.col] <= st.min_count
    THEN [col |-> M.rlink[st.col], min_count |-> M.s[st.col], chosen |-> st.col]
    ELSE [st EXCEPT !.col = M.rlink[st.col]]

\* one pass of the loop of choose_column
choose_step(M, st) ==
    IF M.s[st.col] < st.min_count
    THEN [col |-> M.rlink[st.col], min_count |-> M.s[st.col], chosen |-> st.col]
    ELSE [st EXCEPT !.col = M.rlink[st.col]]

\* the next n passes of "while col != self.header", fewer if the loop ends
RECURSIVE choose_loop(_, _, _)
choose_loop(M, st, n) ==
    IF n = 0 \/ st.col = header THEN st
    ELSE IF n = 1 THEN choose_step(M, st)
    ELSE choose_loop(M, choose_loop(M, st, n \div 2), n - n \div 2)

\* the header list holds no more nodes than there are column headers
choose_column(M) ==
    choose_loop(M, [col |-> M.rlink[header], min_count |-> Inf(M),
                    chosen |-> None],
                Len(M.column_list)).chosen

----------------------------------------------------------------------------
(* Reading the matrix *)

\* the next n nodes of the header list after the last of seq, fewer if the
\* list ends at the master header
RECURSIVE RightWalk(_, _, _)
RightWalk(M, seq, n) ==
    IF n = 0 \/ M.rlink[seq[Len(seq)]] = header THEN seq
    ELSE IF n = 1 THEN Append(seq, M.rlink[seq[Len(seq)]])
    ELSE RightWalk(M, RightWalk(M, seq, n \div 2), n - n \div 2)

\* the column headers reached from the master header by rlink, in order
HeaderSeq(M) == Tail(RightWalk(M, <<header>>, Len(M.column_list)))
LinkedCols(M) == {HeaderSeq(M)[n] : n \in 1..Len(HeaderSeq(M))}
Columns == {column_list[n] : n \in 1..Len(column_list)}

\* the nodes met from r by dlink before col is met, at most n of them
RECURSIVE DownWalk(_, _, _, _)
DownWalk(M, col, r, n) ==
    IF n = 0 \/ r = col THEN <<>>
    ELSE <<r>> \o DownWalk(M, col, M.dlink[r], n - 1)

\* a vertical list holds at most one node per digit or cell of its unit;
\* one more step shows a list that is longer
DownSeq(M, col) == DownWalk(M, col, M.dlink[col], size + 1)

----------------------------------------------------------------------------
(* DLXSudoku.fill_board *)

\* fill_node taking the digit at the wrong place of the row label
fill_node_row_digit(b, M, opts, node) ==
    LET option == opts[M.s[node] + 1]
    IN  SetCell(b, option[1][2], option[1][3], option[2][2])

\* fill_node with row and column of the cell exchanged
fill_node_transposed(b, M, opts, node) ==
    LET option == opts[M.s[node] + 1]
    IN  SetCell(b, option[1][3], option[1][2], option[2][3])

\* the body of the loop of fill_board for one node of self.solution; the
\* indices of the source are 0-based, those of a tuple 1-based
fill_node(b, M, opts, node) ==
    LET option_index == M.s[node]
        option == opts[option_index + 1]
        cell == option[1]
        i == cell[2]
        j == cell[3]
        val == option[2][3]
    IN  SetCell(b, i, j, val)

\* "for node in self.solution", from the lo-th node to the hi-th; the test
\* of DOMAIN b has the board computed before the next nodes are taken
RECURSIVE fill_range(_, _, _, _, _, _)
fill_range(b, M, opts, sol, lo, hi) ==
    IF lo > hi \/ DOMAIN b = {} THEN b
    ELSE IF lo = hi THEN fill_node(b, M, opts, sol[lo])
    ELSE LET mid == (lo + hi) \div 2
         IN  fill_range(fill_range(b, M, opts, sol, lo, mid),
                        M, opts, sol, mid + 1, hi)

fill_board(b, M, opts, sol) == fill_range(b, M, opts, sol, 1, Len(sol))

----------------------------------------------------------------------------
(* DLXSudoku.search and DLXSudoku.solve, one action per stretch of code     *)
(* between two calls or returns of search()                                 *)

SetMat(M) ==
    /\ c' = M.c
    /\ s' = M.s
    /\ name' = M.name
    /\ column_list' = M.column_list
    /\ llink' = M.llink
    /\ rlink' = M.rlink
    /\ ulink' = M.ulink
    /\ dlink' = M.dlink

matvars == <<c, s, name, column_list, llink, rlink, ulink, dlink>>
aisvars == <<now, last_request_time, ais_pc, wake, sent>>
gievars == <<gie_pc, page, all_pages, current_page, last_page, all_data, data,
             ncalls, http_log>>
fixed == <<input, options, constraints, hist, lastop, aisvars, gievars>>

\* no fetch of the GIE client is running
NoFetch ==
    /\ gie_pc = "idle"
    /\ page = 0 /\ all_pages = FALSE /\ current_page = 0
    /\ last_page = 0 /\ all_data = <<>> /\ data = <<>>
    /\ ncalls = 0 /\ http_log = <<>>

Top == stack[Len(stack)]
Pop(q) == SubSeq(q, 1, Len(q) - 1)
\* the activation record of a search() just entered; entry keeps the matrix
\* and self.solution as they are at that moment, tried the rows that the
\* loop of this search() has appended to self.solution so far
NewFrame(M, sol) ==
    [col |-> None, r |-> None, next_r |-> None, tried |-> <<>>,
     entry |-> [mat |-> [c |-> M.c, s |-> M.s, name |-> M.name,
                         column_list |-> M.column_list,
                         llink |-> M.llink, rlink |-> M.rlink,
                         ulink |-> M.ulink, dlink |-> M.dlink],
                solution |-> sol]]

\* cover_others that covers only the first of the other columns
cover_others_first_only(M, r, j) ==
    IF j = r THEN M ELSE cover(M, M.c[j])

\* the loop "j = r.rlink; while j != r: self.cover(j.c)"
RECURSIVE cover_others(_, _, _)
cover_others(M, r, j) ==
    IF j = r THEN M
    ELSE LET M1 == cover(M, M.c[j])
         IN  cover_others(M1, r, M1.rlink[j])

\* the loop "j = r.llink; while j != r: self.uncover(j.c)"
RECURSIVE uncover_others(_, _, _)
uncover_others(M, r, j) ==
    IF j = r THEN M
    ELSE LET M1 == uncover(M, M.c[j])
         IN  uncover_others(M1, r, M1.llink[j])

\* SearchSolved that empties self.solution as it returns
SearchSolved_clears_solution ==
    /\ pc = "call"
    /\ rlink[header] = header
    /\ solution' = <<>>
    /\ retval' = "True"
    /\ stack' = Pop(stack)
    /\ pc' = "ret"
    /\ UNCHANGED <<board, result, matvars, fixed>>

\* search(): "if self.header.rlink == self.header: return True"
SearchSolved ==
    /\ pc = "call"
    /\ rlink[header] = header
    /\ retval' = "True"
    /\ stack' = Pop(stack)
    /\ pc' = "ret"
    /\ UNCHANGED <<board, solution, result, matvars, fixed>>

\* SearchDeadEnd that returns True
SearchDeadEnd_returns_true ==
    /\ pc = "call"
    /\ rlink[header] # header
    /\ s[choose_column(Mat)] = 0
    /\ retval' = "True"
    /\ stack' = Pop(stack)
    /\ pc' = "ret"
    /\ UNCHANGED <<board, solution, result, matvars, fixed>>

\* SearchDeadEnd that covers the chosen column before it returns False
SearchDeadEnd_covers ==
    /\ pc = "call"
    /\ rlink[header] # header
    /\ s[choose_column(Mat)] = 0
    /\ SetMat(cover(Mat, choose_column(Mat)))
    /\ retval' = "False"
    /\ stack' = Pop(stack)
    /\ pc' = "ret"
    /\ UNCHANGED <<board, solution, result, fixed>>

\* search(): "if col.s == 0: return False"
SearchDeadEnd ==
    /\ pc = "call"
    /\ rlink[header] # header
    /\ s[choose_column(Mat)] = 0
    /\ retval' = "False"
    /\ stack' = Pop(stack)
    /\ pc' = "ret"
    /\ UNCHANGED <<board, solution, result, matvars, fixed>>

\* search(): "self.cover(col); r = col.dlink"
SearchCover ==
    /\ pc = "call"
    /\ rlink[header] # header
    /\ LET col == choose_column(Mat)
           M1 == cover(Mat, col)
       IN  /\ s[col] # 0
           /\ SetMat(M1)
           /\ stack' = [stack EXCEPT ![Len(stack)] =
                            [col |-> col, r |-> M1.dlink[col], next_r |-> None,
                             tried |-> <<>>, entry |-> Top.entry]]
    /\ pc' = "loop"
    /\ UNCHANGED <<board, solution, retval, result, fixed>>

\* TryRow that writes the digit of the row into self.board as it tries it
TryRow_writes_board ==
    /\ pc = "loop"
    /\ Top.r # Top.col
    /\ LET r == Top.r
           M1 == cover_others(Mat, r, rlink[r])
       IN  /\ solution' = Append(solution, r)
           /\ board' = fill_node(board, Mat, options, r)
           /\ SetMat(M1)
           /\ stack' = Append([stack EXCEPT ![Len(stack)].next_r = M1.dlink[r],
                                             ![Len(stack)].tried = Append(@, r)],
                              NewFrame(M1, Append(solution, r)))
    /\ pc' = "call"
    /\ UNCHANGED <<retval, result, fixed>>

\* search(): the loop body up to the recursive call
TryRow ==
    /\ pc = "loop"
    /\ Top.r # Top.col
    /\ LET r == Top.r
           M1 == cover_others(Mat, r, rlink[r])
       IN  /\ solution' = Append(solution, r)
           /\ SetMat(M1)
           /\ stack' = Append([stack EXCEPT ![Len(stack)].next_r = M1.dlink[r],
                                             ![Len(stack)].tried = Append(@, r)],
                              NewFrame(M1, Append(solution, r)))
    /\ pc' = "call"
    /\ UNCHANGED <<board, retval, result, fixed>>

\* ReturnTrue that takes the row of this search() out of self.solution
ReturnTrue_drops_row ==
    /\ pc = "ret"
    /\ stack # <<>>
    /\ retval = "True"
    /\ solution' = Pop(solution)
    /\ stack' = Pop(stack)
    /\ UNCHANGED <<board, pc, retval, result, matvars, fixed>>

\* search(): "if self.search(): return True"
ReturnTrue ==
    /\ pc = "ret"
    /\ stack # <<>>
    /\ retval = "True"
    /\ stack' = Pop(stack)
    /\ UNCHANGED <<board, solution, pc, retval, result, matvars, fixed>>

\* Backtrack that ends the row loop instead of going on to next_r
Backtrack_gives_up ==
    /\ pc = "ret"
    /\ stack # <<>>
    /\ retval = "False"
    /\ LET r == solution[Len(solution)]
       IN  /\ solution' = Pop(solution)
           /\ SetMat(uncover_others(Mat, r, llink[r]))
           /\ stack' = [stack EXCEPT ![Len(stack)].r = Top.col]
    /\ pc' = "loop"
    /\ UNCHANGED <<board, retval, result, fixed>>

\* Backtrack that stays at the row that failed, to be tried again
Backtrack_retries_row ==
    /\ pc = "ret"
    /\ stack # <<>>
    /\ retval = "False"
    /\ LET r == solution[Len(solution)]
       IN  /\ solution' = Pop(solution)
           /\ SetMat(uncover_others(Mat, r, llink[r]))
           /\ stack' = [stack EXCEPT ![Len(stack)].tried = Pop(@)]
    /\ pc' = "loop"
    /\ UNCHANGED <<board, retval, result, fixed>>

\* Backtrack that leaves the failed row in self.solution
Backtrack_keeps_row ==
    /\ pc = "ret"
    /\ stack # <<>>
    /\ retval = "False"
    /\ LET r == Top.r
       IN  /\ SetMat(uncover_others(Mat, r, llink[r]))
           /\ stack' = [stack EXCEPT ![Len(stack)].r = Top.next_r]
    /\ pc' = "loop"
    /\ UNCHANGED <<board, solution, retval, result, fixed>>

\* Backtrack that goes on to the row after next_r
Backtrack_skips_row ==
    /\ pc = "ret"
    /\ stack # <<>>
    /\ retval = "False"
    /\ LET r == solution[Len(solution)]
           M1 == uncover_others(Mat, r, llink[r])
       IN  /\ solution' = Pop(solution)
           /\ SetMat(M1)
           /\ stack' = [stack EXCEPT ![Len(stack)].r =
                            IF Top.next_r = Top.col THEN Top.col
                            ELSE M1.dlink[Top.next_r]]
    /\ pc' = "loop"
    /\ UNCHANGED <<board, retval, result, fixed>>

\* search(): the loop body after a recursive call that returned False
Backtrack ==
    /\ pc = "ret"
    /\ stack # <<>>
    /\ retval = "False"
    /\ LET r == solution[Len(solution)]
       IN  /\ solution' = Pop(solution)
           /\ SetMat(uncover_others(Mat, r, llink[r]))
           /\ stack' = [stack EXCEPT ![Len(stack)].r = Top.next_r]
    /\ pc' = "loop"
    /\ UNCHANGED <<board, retval, result, fixed>>

\* RowsExhausted that returns False without self.uncover(col)
RowsExhausted_no_uncover ==
    /\ pc = "loop"
    /\ Top.r = Top.col
    /\ retval' = "False"
    /\ stack' = Pop(stack)
    /\ pc' = "ret"
    /\ UNCHANGED <<board, solution, result, matvars, fixed>>

\* search(): "self.uncover(col); return False" once the loop has ended
RowsExhausted ==
    /\ pc = "loop"
    /\ Top.r = Top.col
    /\ SetMat(uncover(Mat, Top.col))
    /\ retval' = "False"
    /\ stack' = Pop(stack)
    /\ pc' = "ret"
    /\ UNCHANGED <<board, solution, result, fixed>>

\* solve(): "return self.fill_board()"
SolveFill ==
    /\ pc = "ret"
    /\ stack = <<>>
    /\ retval = "True"
    /\ board' = fill_board(board, Mat, options, solution)
    /\ result' = "board"
    /\ pc' = "done"
    /\ UNCHANGED <<solution, stack, retval, matvars, fixed>>

\* solve() returning the board, filled as far as self.solution goes, after
\* a search() that returned False
SolveNone_returns_board ==
    /\ pc = "ret"
    /\ stack = <<>>
    /\ retval = "False"
    /\ board' = fill_board(board, Mat, options, solution)
    /\ result' = "board"
    /\ pc' = "done"
    /\ UNCHANGED <<solution, stack, retval, matvars, fixed>>

\* solve(): "return None"
SolveNone ==
    /\ pc = "ret"
    /\ stack = <<>>
    /\ retval = "False"
    /\ result' = None
    /\ pc' = "done"
    /\ UNCHANGED <<board, solution, stack, retval, matvars, fixed>>

\* DLXSudoku(board) built and solve() entered
InitOn(b) ==
    LET opts == get_all_options(b)
        cons == get_constraint_universe(opts)
        M == BuildMatrix(opts, cons)
    IN  /\ input = b
        /\ board = b
        /\ options = opts
        /\ constraints = cons
        /\ c = M.c
        /\ s = M.s
        /\ name = M.name
        /\ column_list = M.column_list
        /\ llink = M.llink
        /\ rlink = M.rlink
        /\ ulink = M.ulink
        /\ dlink = M.dlink
        /\ solution = <<>>
        /\ stack = <<NewFrame(M, <<>>)>>
        /\ pc = "call"
        /\ retval = None
        /\ result = "pending"
        /\ hist = <<>>
        /\ lastop = None
        /\ now = 0
        /\ last_request_time = <<>>
        /\ ais_pc = "idle"
        /\ wake = <<>>
        /\ sent = <<>>
        /\ NoFetch

Init == \E b \in Boards : InitOn(b)

Next ==
    \/ SearchSolved
    \/ SearchDeadEnd
    \/ SearchCover
    \/ TryRow
    \/ ReturnTrue
    \/ Backtrack
    \/ RowsExhausted
    \/ SolveFill
    \/ SolveNone

Spec == Init /\ [][Next]_vars

\* the solve runs on: it is one thread of straight-line code that takes its
\* next step whenever it has one. This is weak fairness of Next, written
\* out with "a step of Next is possible" as pc # "done": every state of a
\* solve but the last has a step
Running == pc # "done"
SpecRun ==
    /\ Init
    /\ [][Next]_vars
    /\ (<>[](~Running) \/ []<><<Next>>_vars)

----------------------------------------------------------------------------
(* cover and uncover called in nested pairs on a freshly built matrix *)

\* self.cover(X) for a column X of the header list
LifoCover ==
    /\ Len(hist) < MaxNest
    /\ \E X \in LinkedCols(Mat) :
           /\ hist' = Append(hist, [col |-> X, before |-> Mat])
           /\ SetMat(cover(Mat, X))
    /\ lastop' = "cover"
    /\ UNCHANGED <<input, board, options, constraints, solution, stack, pc,
                   retval, result, aisvars, gievars>>

\* self.uncover(X) for the column X covered last and not yet uncovered
LifoUncover ==
    /\ hist # <<>>
    /\ SetMat(uncover(Mat, hist[Len(hist)].col))
    /\ hist' = Pop(hist)
    /\ lastop' = "uncover"
    /\ UNCHANGED <<input, board, options, constraints, solution, stack, pc,
                   retval, result, aisvars, gievars>>

InitLifo == InitOn(LifoBoard)

NextLifo == LifoCover \/ LifoUncover

SpecLifo == InitLifo /\ [][NextLifo]_vars

----------------------------------------------------------------------------
(* AICCLient.get_data: the rate limiting around the HTTP request.  Time is  *)
(* counted in whole seconds and passes, TickStep seconds at a time, between *)
(* the steps of a call.                                                     *)

\* the clock stops here
MaxTime == 125

\* the clock advances by this many seconds at a time
TickStep == 15

\* at most this many requests are issued
MaxRequests == 3

\* "if elapsed < 60" and "wait_time = 60 - elapsed"
min_interval == 60

sudokuvars == <<input, board, options, constraints, solution, stack, pc,
                retval, result, hist, lastop, matvars>>

\* a time that is not set (None in the source) is the empty tuple, a time
\* t that is set is <<t>>
NoTime == <<>>

\* get_data(): from the entry to "time.sleep(wait_time)" or, when there is
\* nothing to wait for, to the request
GetDataEnter ==
    /\ ais_pc \in {"idle", "returned", "raised"}
    /\ Len(sent) < MaxRequests
    /\ LET current_time == now
       IN  IF last_request_time = NoTime
           THEN ais_pc' = "send" /\ wake' = NoTime
           ELSE LET elapsed == current_time - last_request_time[1]
                IN  IF elapsed < min_interval
                    THEN /\ ais_pc' = "sleep"
                         /\ wake' = <<now + (min_interval - elapsed)>>
                    ELSE ais_pc' = "send" /\ wake' = NoTime
    /\ UNCHANGED <<now, last_request_time, sent, sudokuvars,
                   gievars>>

\* time.sleep(wait_time) returns, not before wait_time has passed
SleepReturns ==
    /\ ais_pc = "sleep"
    /\ now >= wake[1]
    /\ ais_pc' = "send"
    /\ wake' = NoTime
    /\ UNCHANGED <<now, last_request_time, sent, sudokuvars,
                   gievars>>

\* requests.get(...) issues the HTTP request
SendRequest ==
    /\ ais_pc = "send"
    /\ sent' = Append(sent, now)
    /\ ais_pc' = "inflight"
    /\ UNCHANGED <<now, last_request_time, wake, sudokuvars,
                   gievars>>

\* requests.get(...) returns a response: last_request_time is set, then the
\* call raises (status other than 200, decompression or parsing failed) or
\* returns the data
ResponseArrives ==
    /\ ais_pc = "inflight"
    /\ last_request_time' = <<now>>
    /\ \E end \in {"returned", "raised"} : ais_pc' = end
    /\ UNCHANGED <<now, wake, sent, sudokuvars,
                   gievars>>

\* requests.get(...) raises after the request went out (the connection
\* broke, the response could not be read): get_data ends at line 96
RequestRaises ==
    /\ ais_pc = "inflight"
    /\ ais_pc' = "raised"
    /\ UNCHANGED <<now, last_request_time, wake, sent, sudokuvars,
                   gievars>>

\* time passes
Tick ==
    /\ now + TickStep <= MaxTime
    /\ now' = now + TickStep
    /\ UNCHANGED <<last_request_time, ais_pc, wake, sent, sudokuvars,
                   gievars>>

\* AICCLient(username) built; no solver is running
InitAis ==
    /\ input = <<>> /\ board = <<>> /\ options = <<>> /\ constraints = <<>>
    /\ c = <<>> /\ s = <<>> /\ name = <<>> /\ column_list = <<>>
    /\ llink = <<>> /\ rlink = <<>> /\ ulink = <<>> /\ dlink = <<>>
    /\ solution = <<>> /\ stack = <<>> /\ pc = None /\ retval = None
    /\ result = None /\ hist = <<>> /\ lastop = None
    /\ now = 0
    /\ last_request_time = NoTime
    /\ ais_pc = "idle"
    /\ wake = NoTime
    /\ sent = <<>>
    /\ NoFetch

NextAis ==
    \/ GetDataEnter
    \/ SleepReturns
    \/ SendRequest
    \/ ResponseArrives
    \/ RequestRaises
    \/ Tick

SpecAis == InitAis /\ [][NextAis]_vars

----------------------------------------------------------------------------
(* GIE of src/src/gas/gie_api.py: _get_with_rate_limiting and the page loop *)
(* that fetch_agsi_data, fetch_alsi_data and fetch_urgent_market_messages   *)
(* share word for word.  One fetch runs; the server answers each request    *)
(* with a status and, on success, a JSON object.  A key of a JSON object    *)
(* that is absent is <<>>, a key with value v is <<v>>.  Time passes while  *)
(* the client sleeps.                                                       *)

\* the server has pages 1..MaxPage
MaxPage == 3

\* the server answers 429 at most this many times
Max429 == 2

\* "time.sleep(60)"
retry_delay == 60

\* dict.get(key, default)
Get(entry, default) == IF entry = <<>> THEN default ELSE entry[1]

\* response.raise_for_status(): raises for a client or server error status
raise_for_status(status) == status \in 400..599

\* what the server may send as "data" and as "last_page" of page q, and the
\* error statuses it may answer with
Bodies(q) == {<<>>, << <<10 * q + 1, 10 * q + 2>> >>}
LastPages == {<<>>} \cup {<<n>> : n \in 0..MaxPage}
LaterLastPages == {<<>>, <<MaxPage + 1>>}
ErrorStatuses == {404, 500}

\* the request that self.session.get sends now, with the answer to it
Exchange(status, body, lp) ==
    [call |-> ncalls, page |-> current_page, status |-> status, at |-> now,
     data |-> body, last_page |-> lp]

\* _get_with_rate_limiting: the server answers 429; "time.sleep(60)" begins
GieAnswer429 ==
    /\ gie_pc = "get"
    /\ Cardinality({k \in 1..Len(http_log) : http_log[k].status = 429}) < Max429
    /\ http_log' = Append(http_log, Exchange(429, <<>>, <<>>))
    /\ gie_pc' = "sleep"
    /\ UNCHANGED <<now, page, all_pages, current_page, last_page, all_data,
                   data, ncalls>>
    /\ UNCHANGED <<last_request_time, ais_pc, wake, sent, sudokuvars>>

\* GieSleep that gives up the fetch instead of sending the request again
GieSleep_no_retry ==
    /\ gie_pc = "sleep"
    /\ \E d \in {0, TickStep} : now' = now + retry_delay + d
    /\ gie_pc' = "raised"
    /\ UNCHANGED <<page, all_pages, current_page, last_page, all_data, data,
                   ncalls, http_log>>
    /\ UNCHANGED <<last_request_time, ais_pc, wake, sent, sudokuvars>>

\* "time.sleep(60); continue": the sleep ends, not before 60 seconds
GieSleep ==
    /\ gie_pc = "sleep"
    /\ \E d \in {0, TickStep} : now' = now + retry_delay + d
    /\ gie_pc' = "get"
    /\ UNCHANGED <<page, all_pages, current_page, last_page, all_data, data,
                   ncalls, http_log>>
    /\ UNCHANGED <<last_request_time, ais_pc, wake, sent, sudokuvars>>

\* the server answers with an error status other than 429:
\* raise_for_status() raises and the fetch ends with the exception
GieAnswerError ==
    /\ gie_pc = "get"
    /\ \E status \in ErrorStatuses :
           /\ raise_for_status(status)
           /\ http_log' = Append(http_log, Exchange(status, <<>>, <<>>))
    /\ gie_pc' = "raised"
    /\ UNCHANGED <<now, page, all_pages, current_page, last_page, all_data,
                   data, ncalls>>
    /\ UNCHANGED <<last_request_time, ais_pc, wake, sent, sudokuvars>>

\* "while current_page < last_page": the next page is asked for, or the
\* loop ends with data["data"] = all_data and the fetch returns data; d is
\* the dict data, ad is all_data and lp is last_page
PageLoop(d, ad, lp) ==
    IF current_page < lp
    THEN /\ current_page' = current_page + 1
         /\ ncalls' = ncalls + 1
         /\ data' = d
         /\ gie_pc' = "get"
    ELSE /\ data' = [d EXCEPT !.data = <<ad>>]
         /\ gie_pc' = "done"
         /\ UNCHANGED <<current_page, ncalls>>

\* the answer to the first request of the fetch is a success: from
\* "data = response.json()" to the next request or to "return data"
GieFirstPage ==
    /\ gie_pc = "get"
    /\ ncalls = 1
    /\ \E body \in Bodies(current_page), lp \in LastPages :
           LET d == [data |-> body, last_page |-> lp]
           IN  /\ ~raise_for_status(200)
               /\ http_log' = Append(http_log, Exchange(200, body, lp))
               /\ IF all_pages
                  THEN /\ all_data' = Get(d.data, <<>>)
                       /\ last_page' = Get(d.last_page, page)
                       /\ PageLoop(d, Get(d.data, <<>>), Get(d.last_page, page))
                  ELSE /\ data' = d
                       /\ gie_pc' = "done"
                       /\ UNCHANGED <<all_data, last_page, current_page, ncalls>>
    /\ UNCHANGED <<now, page, all_pages>>
    /\ UNCHANGED <<last_request_time, ais_pc, wake, sent, sudokuvars>>

\* GieNextPage that puts the new page in front of all_data
GieNextPage_prepends ==
    /\ gie_pc = "get"
    /\ ncalls > 1
    /\ \E body \in Bodies(current_page), lp \in LaterLastPages :
           LET page_data == [data |-> body, last_page |-> lp]
               extended == Get(page_data.data, <<>>) \o all_data
           IN  /\ ~raise_for_status(200)
               /\ http_log' = Append(http_log, Exchange(200, body, lp))
               /\ all_data' = extended
               /\ PageLoop(data, extended, last_page)
    /\ UNCHANGED <<now, page, all_pages, last_page>>
    /\ UNCHANGED <<last_request_time, ais_pc, wake, sent, sudokuvars>>

\* the answer to a later request is a success: from "page_data =
\* resp.json()" to the next request or to "return data"
GieNextPage ==
    /\ gie_pc = "get"
    /\ ncalls > 1
    /\ \E body \in Bodies(current_page), lp \in LaterLastPages :
           LET page_data == [data |-> body, last_page |-> lp]
               extended == all_data \o Get(page_data.data, <<>>)
           IN  /\ ~raise_for_status(200)
               /\ http_log' = Append(http_log, Exchange(200, body, lp))
               /\ all_data' = extended
               /\ PageLoop(data, extended, last_page)
    /\ UNCHANGED <<now, page, all_pages, last_page>>
    /\ UNCHANGED <<last_request_time, ais_pc, wake, sent, sudokuvars>>

\* a fetch with starting page p has been called and is about to send its
\* first request; no solver and no AIS client is running
InitGie ==
    /\ input = <<>> /\ board = <<>> /\ options = <<>> /\ constraints = <<>>
    /\ c = <<>> /\ s = <<>> /\ name = <<>> /\ column_list = <<>>
    /\ llink = <<>> /\ rlink = <<>> /\ ulink = <<>> /\ dlink = <<>>
    /\ solution = <<>> /\ stack = <<>> /\ pc = None /\ retval = None
    /\ result = None /\ hist = <<>> /\ lastop = None
    /\ now = 0 /\ last_request_time = NoTime /\ ais_pc = "idle"
    /\ wake = NoTime /\ sent = <<>>
    /\ gie_pc = "get"
    /\ page \in 1..MaxPage
    /\ all_pages \in BOOLEAN
    /\ current_page = page
    /\ last_page = 0
    /\ all_data = <<>>
    /\ data = <<>>
    /\ ncalls = 1
    /\ http_log = <<>>

NextGie ==
    \/ GieAnswer429
    \/ GieSleep
    \/ GieAnswerError
    \/ GieFirstPage
    \/ GieNextPage

\* the server answers every request and a sleep ends
SpecGie == InitGie /\ [][NextGie]_vars /\ WF_vars(NextGie)

----------------------------------------------------------------------------
(* Sudoku, stated without the solver *)

Digits == 1..9
BoxCells(x) ==
    {<<3 * (x \div 3) + a, 3 * (x % 3) + b>> : a \in 0..2, b \in 0..2}

\* every row, column and box holds each digit exactly once
IsLegalGrid(g) ==
    /\ \A i \in Idx : {g[i][j] : j \in Idx} = Digits
    /\ \A j \in Idx : {g[i][j] : i \in Idx} = Digits
    /\ \A x \in Idx : {g[q[1]][q[2]] : q \in BoxCells(x)} = Digits

Agrees(g, b) == \A i, j \in Idx : b[i][j] # 0 => g[i][j] = b[i][j]
NoBlank(g) == \A i, j \in Idx : g[i][j] \in Digits
ZeroCells(g) == {q \in Idx \X Idx : g[q[1]][q[2]] = 0}

\* v is nowhere in the row, the column or the box of cell q of g
Free(g, q, v) ==
    /\ \A j \in Idx : g[q[1]][j] # v
    /\ \A i \in Idx : g[i][q[2]] # v
    /\ \A w \in BoxCells(3 * (q[1] \div 3) + q[2] \div 3) : g[w[1]][w[2]] # v

\* the legal grids that agree with g on its non-blank cells: a digit that is
\* not Free in a cell cannot be part of one
RECURSIVE Completions(_)
Completions(g) ==
    IF ZeroCells(g) = {}
    THEN IF IsLegalGrid(g) THEN {g} ELSE {}
    ELSE LET q == CHOOSE z \in ZeroCells(g) : TRUE
         IN  UNION {Completions(SetCell(g, q[1], q[2], v)) :
                        v \in {d \in Digits : Free(g, q, d)}}

----------------------------------------------------------------------------
(* Claims *)

\* C1 (as claimed): whenever solve() returns a board, the board is a legal
\* grid (every row, column and box holds each digit once) and agrees with
\* the input on the cells that were given.
C1_Soundness ==
    (pc = "done" /\ result = "board")
        => (IsLegalGrid(board) /\ Agrees(board, input))

\* C2 (as claimed): solve() returns None or a grid without a blank cell.
C2_NoneOrFilled ==
    pc = "done" => (result = None \/ (result = "board" /\ NoBlank(board)))

\* C3: on an input with exactly one legal completion solve() returns that
\* completion.
C3_Completeness ==
    (pc = "done" /\ Cardinality(Completions(input)) = 1)
        => (result = "board" /\ Completions(input) = {board})

C3_Witness ==
    /\ pc = "done"
    /\ input = UniqueHardBoard
    /\ Cardinality(Completions(input)) = 1
    /\ result = "board"

\* C4: in every state of a solve, for every column X of the header list,
\* cover(X) followed by uncover(X) leaves all links and counts as they were.
C4_RoundTrip ==
    \A X \in LinkedCols(Mat) : uncover(cover(Mat, X), X) = Mat

C4_Witness ==
    /\ Len(solution) >= 1
    /\ \E X \in LinkedCols(Mat) :
           /\ s[X] >= 2
           /\ cover(Mat, X).s # s
           /\ uncover(cover(Mat, X), X) = Mat

\* C5 (as claimed): on an input without a legal completion solve() returns
\* None.
C5_NoSolution ==
    (pc = "done" /\ Completions(input) = {}) => result = None

Example4 ==
    SetCell(SetCell(SetCell(SetCell(ExampleBoard,
        0, 1, 7), 2, 7, 7), 7, 1, 1), 8, 3, 7)

\* C7 (as claimed): the example board is returned with (0,1)=7, (2,7)=7,
\* (7,1)=1, (8,3)=7 and every other cell as in the input.
C7_AsClaimed ==
    (pc = "done" /\ input = ExampleBoard)
        => (result = "board" /\ board = Example4)

\* C7 (amended): the example board is returned with (0,1)=7, (1,1)=9,
\* (2,7)=7, (7,1)=1, (8,3)=7 and every other cell as in the input.
C7_Example ==
    (pc = "done" /\ input = ExampleBoard)
        => (result = "board" /\ board = SetCell(Example4, 1, 1, 9))

C7_Witness == pc = "done" /\ input = ExampleBoard /\ result = "board"

\* C9: when covers of linked columns X1..Xn are undone in reverse order,
\* each uncover(Xk) leaves every link and count as it was just before the
\* matching cover(Xk).
C9_LifoReversal ==
    [][lastop' = "uncover" => Mat' = hist[Len(hist)].before]_vars

C9_Witness ==
    /\ lastop = "uncover"
    /\ Len(hist) = MaxNest - 1
    /\ Mat = cover(hist[1].before, hist[1].col)
    /\ Mat # hist[1].before

\* C10: in every state of a solve (cover and uncover run inside one step),
\* the count s of every column header, linked or covered, is the number of
\* nodes met by walking dlink from the header back to the header.
C10_CountInv ==
    \A col \in Columns :
        /\ Len(DownSeq(Mat, col)) <= size
        /\ s[col] = Len(DownSeq(Mat, col))

C10_Witness ==
    /\ pc = "call"
    /\ Len(solution) >= 2
    /\ \E col \in Columns \ LinkedCols(Mat) : s[col] >= 1
    /\ \E col \in LinkedCols(Mat) : s[col] < Len(DownSeq(BuildMatrix(options, constraints), col))

\* the nodes of the matrix, the nodes of option rows, and the nodes that
\* hang in the vertical list of their column
Nodes == DOMAIN rlink
OptionNodes == Nodes \ ({header} \cup Columns)
InColumn(M) ==
    UNION {{DownSeq(M, col)[n] : n \in 1..Len(DownSeq(M, col))} : col \in Columns}

HLinked(n) == llink[rlink[n]] = n /\ rlink[llink[n]] = n
VLinked(n) == ulink[dlink[n]] = n /\ dlink[ulink[n]] = n

\* C11 (as claimed): in every state of a solve (cover and uncover run inside
\* one step), every node n of the matrix has n.rlink.llink = n,
\* n.llink.rlink = n, n.dlink.ulink = n and n.ulink.dlink = n.
C11_AsClaimed == \A n \in Nodes : HLinked(n) /\ VLinked(n)

\* C11 (amended): in every state of a solve the horizontal links are mutual
\* for the master header, the column headers of the header list and every
\* option node, and the vertical links are mutual for the master header,
\* every column header and every node met by dlink from its column header.
C11_LinkInv ==
    /\ \A n \in {header} \cup LinkedCols(Mat) \cup OptionNodes : HLinked(n)
    /\ \A n \in {header} \cup Columns \cup InColumn(Mat) : VLinked(n)

C11_Witness ==
    /\ pc = "call"
    /\ Len(solution) >= 2
    /\ \E col \in Columns \ LinkedCols(Mat) : ~HLinked(col)
    /\ \E n \in OptionNodes \ InColumn(Mat) : ~VLinked(n)
    /\ \E n \in InColumn(Mat) : c[n] \in LinkedCols(Mat)

\* the nodes of the row of node r (a row has four nodes and is never
\* unlinked horizontally), and the columns that hold a node of a row of
\* self.solution
RowOf(M, r) ==
    {r, M.rlink[r], M.rlink[M.rlink[r]], M.rlink[M.rlink[M.rlink[r]]]}
SolutionCols ==
    UNION {{c[n] : n \in RowOf(Mat, solution[k])} : k \in 1..Len(solution)}

\* C12 (as claimed): in every state of a solve (cover and uncover run inside
\* one step), the column headers reached from the master header by rlink
\* are exactly the columns that hold no node of a row of self.solution.
C12_AsClaimed == LinkedCols(Mat) = Columns \ SolutionCols

\* C12 (amended): at every call of search() and at every return from it the
\* column headers reached from the master header by rlink are exactly the
\* columns that hold no node of a row of self.solution; inside the row loop
\* of search(), between two recursive calls, they are those columns less
\* the column col that this search() chose and covered.
C12_HeaderList ==
    LinkedCols(Mat) =
        Columns \ (SolutionCols \cup (IF pc = "loop" THEN {Top.col} ELSE {}))

C12_Witness ==
    /\ pc = "loop"
    /\ retval = "False"
    /\ Len(solution) >= 1
    /\ Top.col \notin SolutionCols
    /\ LinkedCols(Mat) # {}
    /\ LinkedCols(Mat) = Columns \ (SolutionCols \cup {Top.col})

\* the move (i, j, k) from which the option of the k-th node of
\* self.solution was made, moves being the list of all moves
MoveOf(moves, k) == moves[s[solution[k]] + 1]
Written(moves) ==
    {<<MoveOf(moves, k)[1], MoveOf(moves, k)[2]>> : k \in 1..Len(solution)}

\* C13: when solve() returns a board, the nodes of self.solution stand for
\* pairwise different cells; for each node with move (i, j, v) the cell
\* (i, j) was 0 in the input and holds v in the board; every other cell, and
\* so every cell that was not 0 in the input, is as in the input.
C13_FillFrame ==
    (pc = "done" /\ result = "board") =>
        LET moves == valid_moves(input)
            cells == Written(moves)
        IN  /\ Cardinality(cells) = Len(solution)
            /\ \A k \in 1..Len(solution) :
                   LET m == MoveOf(moves, k)
                   IN  input[m[1]][m[2]] = 0 /\ board[m[1]][m[2]] = m[3]
            /\ \A i, j \in Idx :
                   (<<i, j>> \notin cells \/ input[i][j] # 0)
                       => board[i][j] = input[i][j]

C13_Witness ==
    /\ pc = "done"
    /\ result = "board"
    /\ Len(solution) >= 3
    /\ NoBlank(board)
    /\ Cardinality(ZeroCells(input)) = Len(solution)

\* C14: once the top-level search() has returned False, solve() returns
\* None and no grid: the step from the return of search() is the return of
\* None, it leaves self.board as the input was, and a solve() that ended
\* after a False has returned None.
C14_ReturnsNone ==
    (stack = <<>> /\ retval = "False") =>
        /\ pc \in {"ret", "done"}
        /\ pc = "ret" => (result = "pending" /\ ENABLED SolveNone)
        /\ pc = "done" => result = None
        /\ board = input
        /\ solution = <<>>

C14_Witness ==
    /\ pc = "done"
    /\ retval = "False"
    /\ result = None
    /\ ZeroCells(input) # {}
    /\ Len(options) >= 3

\* the triples (i, j, v) with cell (i, j) of g blank and v nowhere in its
\* row, column and box
LegalTriples(g) ==
    {t \in Idx \X Idx \X Digits :
        g[t[1]][t[2]] = 0 /\ Free(g, <<t[1], t[2]>>, t[3])}

\* C15: the list of moves made from the input board holds exactly the
\* triples (i, j, v) with cell (i, j) blank and v in 1..9 and nowhere in row
\* i, column j and the box of (i, j), each once; self.options holds their
\* labels in the same order; and when the options are made the board is as
\* it was given.
C15_Options ==
    LET moves == valid_moves(input)
    IN  /\ {moves[n] : n \in 1..Len(moves)} = LegalTriples(input)
        /\ Len(moves) = Cardinality(LegalTriples(input))
        /\ options = [n \in 1..Len(moves) |-> OptionOf(moves[n])]
        /\ (pc = "call" /\ Len(stack) = 1 /\ solution = <<>>) => board = input

C15_Witness ==
    /\ pc = "call"
    /\ Len(stack) = 1
    /\ solution = <<>>
    /\ Len(options) >= 5
    /\ \E q \in ZeroCells(input) :
           Cardinality({v \in Digits : Free(input, q, v)}) >= 2
    /\ \E q \in ZeroCells(input) : \A v \in Digits : ~Free(input, q, v)

\* the labels that occur in some option
Touched == {options[n][p] : n \in 1..Len(options), p \in 1..4}

\* C16: in the matrix as create_column_headers leaves it, the walk by rlink
\* from the master header visits one column header per label that occurs in
\* some option and no other header, in ascending order of the labels, and
\* the last header visited has the master header as its rlink.
C16_Columns ==
    LET M == create_column_headers(
                 FreshNodes(Len(constraints) + 4 * Len(options)), constraints)
        seq == HeaderSeq(M)
    IN  /\ {M.name[seq[n]] : n \in 1..Len(seq)} = Touched
        /\ Len(seq) = Cardinality(Touched)
        /\ \A n \in 1..(Len(seq) - 1) :
               LabelLess(M.name[seq[n]], M.name[seq[n + 1]])
        /\ M.rlink[IF seq = <<>> THEN header ELSE seq[Len(seq)]] = header
        /\ \A n \in 1..Len(seq) : seq[n] # header /\ M.s[seq[n]] = 0

C16_Witness ==
    /\ pc = "call"
    /\ Len(stack) = 1
    /\ Len(options) >= 5
    /\ Cardinality(Touched) >= 12
    /\ Cardinality(Touched) < 4 * Len(options)
    /\ {constraints[n][1] : n \in 1..Len(constraints)} = {"b", "c", "p", "r"}
    /\ Len(HeaderSeq(Mat)) = Cardinality(Touched)

\* the state in which solve() is entered: the matrix is as __init__ built it
Built == pc = "call" /\ Len(stack) = 1 /\ solution = <<>>

\* C17: in the matrix as create_rows leaves it, the nodes with option index
\* o are four; from the one in the column of the cell label, rlink leads to
\* the nodes in the columns of the row, column and box label of the option,
\* in that order, and back; the vertical list of every column holds exactly
\* the nodes of the column, by ascending option index, and ends at the
\* header; and the count of every column header is the number of options
\* that carry its label.
C17_Rows ==
    Built =>
        /\ Cardinality(OptionNodes) = 4 * Len(options)
        /\ \A o \in 0..(Len(options) - 1) :
               LET row == {n \in OptionNodes : s[n] = o}
               IN  /\ Cardinality(row) = 4
                   /\ \E n \in row :
                          LET walk == <<n, rlink[n], rlink[rlink[n]],
                                        rlink[rlink[rlink[n]]]>>
                          IN  /\ {walk[p] : p \in 1..4} = row
                              /\ rlink[walk[4]] = n
                              /\ \A p \in 1..4 :
                                     name[c[walk[p]]] = options[o + 1][p]
        /\ \A col \in Columns :
               LET seq == DownSeq(Mat, col)
               IN  /\ {seq[n] : n \in 1..Len(seq)} =
                          {n \in OptionNodes : c[n] = col}
                   /\ \A n \in 1..(Len(seq) - 1) : s[seq[n]] < s[seq[n + 1]]
                   /\ dlink[IF seq = <<>> THEN col ELSE seq[Len(seq)]] = col
                   /\ s[col] = Cardinality({o \in 1..Len(options) :
                          \E p \in 1..4 : options[o][p] = name[col]})

C17_Witness ==
    /\ Built
    /\ Len(options) >= 5
    /\ \E col \in Columns : s[col] >= 3
    /\ \E col \in Columns : s[col] = 1

\* the rows of self.solution that have a node in column col
ChosenIn(col) ==
    {k \in 1..Len(solution) : col \in {c[n] : n \in RowOf(Mat, solution[k])}}

\* C18: whenever a search() has returned True, every column of the matrix
\* holds a node of exactly one row of self.solution.
C18_ExactCover ==
    retval = "True" => \A col \in Columns : Cardinality(ChosenIn(col)) = 1

C18_Witness ==
    /\ pc = "ret"
    /\ retval = "True"
    /\ stack # <<>>
    /\ input = HardBoard
    /\ Len(solution) >= 3
    /\ \A col \in Columns : Cardinality(ChosenIn(col)) = 1

\* exact cover, stated without the matrix: the labels of option o, and
\* whether some of the options in rows, pairwise without a common label,
\* carry between them every label of todo exactly once
LabelsOf(o) == {options[o][p] : p \in 1..4}

RECURSIVE CoverExists(_, _)
CoverExists(rows, todo) ==
    IF todo = {} THEN TRUE
    ELSE LET with(l) == {o \in rows : l \in LabelsOf(o)}
             l == CHOOSE x \in todo :
                      \A y \in todo : Cardinality(with(x)) <= Cardinality(with(y))
         IN  \E o \in with(l) :
                 CoverExists({q \in rows : LabelsOf(q) \cap LabelsOf(o) = {}},
                             todo \ LabelsOf(o))

\* C19: the top-level search() returns False only if no set of options
\* carries every label of the universe exactly once.
C19_Exhaustive ==
    (stack = <<>> /\ retval = "False")
        => ~CoverExists(1..Len(options), Touched)

C19_Witness ==
    /\ pc = "ret"
    /\ retval = "False"
    /\ Len(solution) >= 1
    /\ Len(options) >= 6
    /\ ~CoverExists(1..Len(options), Touched)

\* C20 (as claimed): any two successive HTTP requests of one client are at
\* least 60 seconds apart, whatever way the earlier calls ended.
C20_RateLimit ==
    \A k \in 1..(Len(sent) - 1) : sent[k + 1] - sent[k] >= min_interval

\* the requests that were answered with success, in the order sent; the
\* lists of their "data" joined in that order; and the pages from p to the
\* last page lp that the first answer names
IsOk(e) == e.status = 200
Oks == SelectSeq(http_log, IsOk)

RECURSIVE Flatten(_)
Flatten(seq) ==
    IF seq = <<>> THEN <<>>
    ELSE Get(Head(seq).data, <<>>) \o Flatten(Tail(seq))

ExpectedPages(p, lp) ==
    IF lp = <<>> THEN <<p>>
    ELSE IF lp[1] <= p THEN <<p>>
    ELSE [k \in 1..(lp[1] - p + 1) |-> p + k - 1]

\* C21: in a fetch with all_pages=True whose first answer names last page L
\* for starting page p, the k-th call of _get_with_rate_limiting asks for
\* page p+k-1 and no page after L is asked for; when the fetch returns, the
\* pages p..L have been fetched, each by one call, and data["data"] is the
\* pages' "data" lists joined in that order (an absent "data" counts as
\* empty); when L <= p or "last_page" is absent the first page alone is
\* fetched.
C21_Pagination ==
    (all_pages /\ Oks # <<>>) =>
        LET oks == Oks
            pages == ExpectedPages(page, oks[1].last_page)
        IN  /\ Len(oks) <= Len(pages)
            /\ \A k \in 1..Len(oks) : oks[k].page = pages[k] /\ oks[k].call = k
            /\ gie_pc = "done" =>
                   /\ Len(oks) = Len(pages)
                   /\ data.data = <<Flatten(oks)>>

C21_Witness ==
    /\ gie_pc = "done"
    /\ all_pages
    /\ page = 1
    /\ Len(Oks) = 3
    /\ Oks[1].last_page = <<3>>
    /\ Oks[1].data = <<>>
    /\ Len(data.data[1]) >= 3
    /\ \E k \in 1..Len(http_log) : http_log[k].status = 429

\* what C22 says of the requests sent so far: an answer 429 is followed by
\* a sleep of at least 60 seconds and by the same request again, within the
\* same call; any other answer ends the call, an error status by raising
\* and a success by returning
Retry429 ==
    /\ \A k \in 1..(Len(http_log) - 1) :
           IF http_log[k].status = 429
           THEN /\ http_log[k + 1].call = http_log[k].call
                /\ http_log[k + 1].page = http_log[k].page
                /\ http_log[k + 1].at - http_log[k].at >= retry_delay
           ELSE /\ http_log[k].status = 200
                /\ http_log[k + 1].call = http_log[k].call + 1
    /\ http_log # <<>> =>
           LET e == http_log[Len(http_log)]
           IN  CASE e.status = 429 -> gie_pc \in {"sleep", "get"} /\ ncalls = e.call
                 [] e.status = 200 ->
                        \/ gie_pc = "done" /\ ncalls = e.call
                        \/ gie_pc = "get" /\ ncalls = e.call + 1
                 [] OTHER -> gie_pc = "raised" /\ ncalls = e.call
    /\ gie_pc = "sleep" => http_log[Len(http_log)].status = 429

\* C22: a call of _get_with_rate_limiting never returns an answer 429; each
\* 429 is followed by a sleep of at least 60 seconds and the same request
\* again; any other error status raises without another request; a success
\* returns at once; and a call ends once the server has stopped answering
\* 429.
C22_Retry ==
    /\ []Retry429
    /\ \A n \in 1..MaxPage :
           (gie_pc = "get" /\ ncalls = n)
               ~> (gie_pc \in {"done", "raised"} \/ ncalls > n)

C22_Witness ==
    /\ gie_pc = "get"
    /\ ncalls = 2
    /\ Len(http_log) = 3
    /\ http_log[1].status = 429
    /\ http_log[2].status = 429
    /\ http_log[3].status = 200
    /\ http_log[3].at >= 2 * retry_delay

\* C23: whenever an invocation of search(), at any depth, returns False, all
\* links, all counts, the header list and self.solution are what they were
\* when that invocation was entered.
C23_Restores ==
    [][(pc' = "ret" /\ retval' = "False" /\ Len(stack') < Len(stack)) =>
           /\ Mat' = Top.entry.mat
           /\ solution' = Top.entry.solution]_vars

\* an invocation below the top one has returned False after covering a
\* column and trying its rows
C23_Witness ==
    /\ pc = "ret"
    /\ retval = "False"
    /\ stack # <<>>
    /\ rlink[header] # header
    /\ s[choose_column(Mat)] > 0

\* the members of a sequence, and a sequence without the members of a set
SeqSet(q) == {q[n] : n \in 1..Len(q)}
Without(q, S) ==
    LET Keep(x) == x \notin S
    IN  SelectSeq(q, Keep)

\* the matrix After is matrix Before with column X covered: X is gone from
\* the header list, the other nodes of the rows of X's vertical list are
\* gone from the vertical lists of their columns, the counts follow, and
\* nothing else has left a list or changed its place in one
CoverPost(Before, X, After) ==
    LET rows == SeqSet(DownSeq(Before, X))
        gone == UNION {RowOf(Before, r) \ {r} : r \in rows}
    IN  /\ X \notin LinkedCols(After)
        /\ HeaderSeq(After) = Without(HeaderSeq(Before), {X})
        /\ \A col \in Columns \ {X} :
               LET list == DownSeq(Before, col)
               IN  /\ DownSeq(After, col) = Without(list, gone)
                   /\ After.s[col] =
                          Before.s[col] - Cardinality(gone \cap SeqSet(list))
        /\ gone \cap InColumn(After) = {}
        /\ DownSeq(After, X) = DownSeq(Before, X)
        /\ After.s[X] = Before.s[X]
        /\ \A n \in rows \cup {X} :
               /\ After.ulink[n] = Before.ulink[n]
               /\ After.dlink[n] = Before.dlink[n]
               /\ After.llink[n] = Before.llink[n]
               /\ After.rlink[n] = Before.rlink[n]
        /\ \A n \in OptionNodes :
               /\ After.llink[n] = Before.llink[n]
               /\ After.rlink[n] = Before.rlink[n]
               /\ After.c[n] = Before.c[n]

\* C24: after cover(C) of a column C linked in the header list, C is not
\* reached from the master header and the other headers are, in their
\* order; of every row with a node in C's vertical list all other nodes are
\* out of the vertical lists of their columns; every other column's count is
\* its old count less the number of its nodes taken out; C's own vertical
\* list, count and the links of its nodes are as before, and the nodes of
\* rows that do not touch C stay in their lists in the same order.
C24_CoverPost ==
    lastop = "cover" =>
        CoverPost(hist[Len(hist)].before, hist[Len(hist)].col, Mat)

C24_Witness ==
    /\ lastop = "cover"
    /\ Len(hist) = 2
    /\ s[hist[2].col] >= 2
    /\ \E col \in LinkedCols(Mat) :
           /\ s[col] >= 1
           /\ s[col] = hist[2].before.s[col] - 1
    /\ \E col \in LinkedCols(Mat) : s[col] = hist[2].before.s[col] - 2

\* the place of column col in the header list hs, 0 when it is not there
PlaceIn(hs, col) ==
    IF col \in SeqSet(hs) THEN CHOOSE k \in 1..Len(hs) : hs[k] = col ELSE 0

\* C25: whenever the header list is not empty, choose_column returns a
\* column of the header list whose count is least among the columns of the
\* list, and every column met before it on the walk by rlink from the master
\* header has a greater count.
C25_ChooseColumn ==
    rlink[header] # header =>
        LET hs == HeaderSeq(Mat)
            chosen == choose_column(Mat)
            k == PlaceIn(hs, chosen)
        IN  /\ k >= 1
            /\ \A m \in 1..Len(hs) : s[chosen] <= s[hs[m]]
            /\ \A m \in 1..(k - 1) : s[chosen] < s[hs[m]]

\* search() is about to choose among columns of which several hold the
\* least count and the first of the list does not
C25_Witness ==
    /\ pc = "call"
    /\ rlink[header] # header
    /\ LET hs == HeaderSeq(Mat)
           chosen == choose_column(Mat)
       IN  /\ PlaceIn(hs, chosen) >= 2
           /\ s[chosen] >= 1
           /\ \E m \in 1..Len(hs) : hs[m] # chosen /\ s[hs[m]] = s[chosen]

\* search() has been entered with columns linked, the one chosen holding
\* no node
AtDeadEnd ==
    /\ pc = "call"
    /\ rlink[header] # header
    /\ s[choose_column(Mat)] = 0

\* C26: when the chosen column has count 0, search() returns False to its
\* caller in a step that changes no link, no count and not self.solution,
\* which are as they were when this search() was entered.
C26_DeadEnd ==
    [][AtDeadEnd =>
           /\ pc' = "ret"
           /\ retval' = "False"
           /\ stack' = Pop(stack)
           /\ Mat' = Mat
           /\ solution' = solution
           /\ Mat' = Top.entry.mat
           /\ solution' = Top.entry.solution]_vars

\* a nested search() has just returned False from a dead end
C26_Witness ==
    /\ pc = "ret"
    /\ retval = "False"
    /\ Len(stack) >= 2
    /\ rlink[header] # header
    /\ s[choose_column(Mat)] = 0

\* C27: a search() entered when the master header's rlink is the master
\* header returns True in its first step, which changes no link, no count
\* and not self.solution; and a search() returns True from its own check
\* only when no column is linked to the master header.
C27_BaseCase ==
    [][/\ (pc = "call" /\ rlink[header] = header) =>
              /\ pc' = "ret"
              /\ retval' = "True"
              /\ stack' = Pop(stack)
              /\ Mat' = Mat
              /\ solution' = solution
       /\ (pc = "call" /\ pc' = "ret" /\ retval' = "True") =>
              /\ LinkedCols(Mat) = {}
              /\ llink[header] = header]_vars

\* a nested search() has just returned True with every column covered
C27_Witness ==
    /\ pc = "ret"
    /\ retval = "True"
    /\ Len(stack) = Len(solution)
    /\ Len(solution) >= 2
    /\ rlink[header] = header
    /\ Columns # {}

\* the vertical list of the column that activation record f covered, as it
\* was right after "self.cover(col)"
RowsAtCover(f) == DownSeq(cover(f.entry.mat, f.col), f.col)

IsPrefix(p, q) == Len(p) <= Len(q) /\ \A i \in 1..Len(p) : p[i] = q[i]

\* what C28 says of the activation records that have covered a column (all
\* but one just entered): the rows tried so
\* far are the first rows of the covered column's list, in its order, none
\* twice; a search() that waits for a nested call holds the row tried last,
\* and one at the head of its loop holds the row after the tried ones, or
\* the column header when all rows have been tried
RowOrder ==
    \A k \in 1..Len(stack) :
        LET f == stack[k]
        IN  (k < Len(stack) \/ pc # "call") =>
                LET rows == RowsAtCover(f)
                    n == Len(f.tried)
                IN  /\ IsPrefix(f.tried, rows)
                    /\ Cardinality(SeqSet(f.tried)) = n
                    /\ IF k < Len(stack) \/ pc = "ret"
                       THEN n >= 1 /\ f.r = f.tried[n]
                       ELSE f.r = (IF n < Len(rows) THEN rows[n + 1] ELSE f.col)

\* C28: in a search() that covers column C the rows tried are the nodes of
\* C's vertical list as it was when C was covered, from the top down by
\* dlink, none twice; the search() returns True after the first row whose
\* nested search returned True and tries no further row, and returns False
\* only when all rows of the list have been tried; the pointer captured
\* before a nested call is the dlink of the tried row after backtracking.
C28_RowOrder ==
    /\ []RowOrder
    /\ [][/\ (pc = "ret" /\ retval = "True" /\ stack # <<>>) =>
                 /\ stack' = Pop(stack)
                 /\ pc' = "ret" /\ retval' = "True"
          /\ (pc = "ret" /\ retval = "False" /\ stack # <<>>) =>
                 /\ Top.next_r = dlink'[Top.r]
                 /\ stack' = [stack EXCEPT ![Len(stack)].r = Top.next_r]
          /\ (pc = "loop" /\ pc' = "ret") =>
                 /\ retval' = "False"
                 /\ Top.tried = RowsAtCover(Top)]_vars

\* a nested search() is at its second row after a first row that failed
C28_Witness ==
    /\ pc = "loop"
    /\ Len(stack) >= 2
    /\ Len(Top.tried) = 1
    /\ Len(RowsAtCover(Top)) >= 2
    /\ Top.r = Top.next_r
    /\ Top.r # Top.col

\* C29: in every state of a solve self.solution holds no more rows than the
\* input board has zero cells, which are at most 81, and the activation
\* records of search() are at most one more than the rows of self.solution.
C29_DepthBound ==
    /\ Len(solution) <= Cardinality(ZeroCells(input))
    /\ Cardinality(ZeroCells(input)) <= 81
    /\ Len(stack) <= Len(solution) + 1

\* the bound is met: one row per zero cell, after a row that failed
C29_Witness ==
    /\ pc = "call"
    /\ Len(solution) = Cardinality(ZeroCells(input))
    /\ Len(solution) >= 3
    /\ Len(stack) = Len(solution) + 1
    /\ \E k \in 1..Len(solution) : stack[k].tried # <<solution[k]>>

\* the option that the row of node n stands for, and the move it places
OptionIndex(n) == s[n] + 1

\* C30: in every state of a solve the rows of self.solution stand for
\* pairwise distinct options that share no constraint label: no two of the
\* placements chosen fill the same cell or put the same digit in the same
\* row, column or box.
C30_Consistent ==
    LET moves == valid_moves(input)
    IN  \A a, b \in 1..Len(solution) :
            a # b =>
                LET oa == OptionIndex(solution[a])
                    ob == OptionIndex(solution[b])
                    ma == moves[oa]
                    mb == moves[ob]
                IN  /\ oa # ob
                    /\ LabelsOf(oa) \cap LabelsOf(ob) = {}
                    /\ <<ma[1], ma[2]>> # <<mb[1], mb[2]>>
                    /\ ma[3] = mb[3] =>
                           /\ ma[1] # mb[1]
                           /\ ma[2] # mb[2]
                           /\ 3 * (ma[1] \div 3) + ma[2] \div 3
                                  # 3 * (mb[1] \div 3) + mb[2] \div 3

\* several rows are chosen, two of them with the same digit
C30_Witness ==
    /\ pc = "call"
    /\ Len(solution) >= 3
    /\ LET moves == valid_moves(input)
       IN  \E a, b \in 1..Len(solution) :
               /\ a # b
               /\ moves[OptionIndex(solution[a])][3]
                      = moves[OptionIndex(solution[b])][3]

\* C31: on every input board the top-level search() returns, with True or
\* with False, after finitely many steps: no run of covers, uncovers and row
\* advances goes on for ever.
C31_Terminates ==
    <>(/\ pc = "ret"
       /\ stack = <<>>
       /\ retval \in {"True", "False"})

\* the top-level search() has returned on a board that it solves only after
\* backtracking
C31_Witness ==
    /\ pc = "ret"
    /\ stack = <<>>
    /\ retval = "True"
    /\ input = HardBoard
    /\ Len(solution) = Cardinality(ZeroCells(input))

\* C32: self.board is written by no step but the fill_board that follows a
\* search() that returned True: until solve() returns, and when it returns
\* None, every cell of the board is as in the input; and when solve()
\* returns None self.solution is empty.
C32_BoardOnFailure ==
    /\ [](pc # "done" => board = input)
    /\ []((pc = "done" /\ result = None) =>
              (board = input /\ solution = <<>>))
    /\ [][board' # board =>
              /\ pc = "ret" /\ stack = <<>> /\ retval = "True"
              /\ pc' = "done" /\ result' = "board"]_vars

\* solve() has returned None on a board with blank cells and options
C32_Witness ==
    /\ pc = "done"
    /\ result = None
    /\ Cardinality(ZeroCells(input)) >= 2
    /\ options # <<>>
    /\ board = input

\* C33: on an input board that has a legal completion, one or several,
\* solve() returns a grid, and the grid is one of the legal completions of
\* the input: without a blank, each digit once in every row, column and box,
\* and equal to the input on its non-zero cells.
C33_Solvable ==
    (pc = "done" /\ Completions(input) # {}) =>
        /\ result = "board"
        /\ board \in Completions(input)
        /\ NoBlank(board) /\ IsLegalGrid(board) /\ Agrees(board, input)

\* a board with several completions has been solved
C33_Witness ==
    /\ pc = "done"
    /\ result = "board"
    /\ Cardinality(Completions(input)) >= 2
    /\ Cardinality(ZeroCells(input)) >= 4
    /\ board \in Completions(input)

\* no digit other than 0 stands twice in a row, a column or a box of g
NoDuplicate(g, cells) ==
    \A p, q \in cells :
        (p # q /\ g[p[1]][p[2]] # 0) => g[p[1]][p[2]] # g[q[1]][q[2]]

ConflictFree(g) ==
    /\ \A i \in Idx : NoDuplicate(g, {<<i, j>> : j \in Idx})
    /\ \A j \in Idx : NoDuplicate(g, {<<i, j>> : i \in Idx})
    /\ \A x \in Idx : NoDuplicate(g, BoxCells(x))

\* C34 (as claimed): on an input board whose non-zero digits stand at most
\* once in every row, column and box, a grid that solve() returns has no
\* zero cell and holds each digit once in every row, column and box.
C34_ConflictFree ==
    (pc = "done" /\ result = "board" /\ ConflictFree(input)) =>
        (NoBlank(board) /\ IsLegalGrid(board))

====
